---- MODULE Spec2Model ----
(***************************************************************************)
(* Model of south-pole-tasks.py: the command-line entry point, main's      *)
(* sequence of Earth Engine requests, and the local year-series pipeline   *)
(* keys_integer -> year_mapping -> rate_calc -> max.                       *)
(*                                                                         *)
(* Representation.                                                         *)
(*  - A Python str is a sequence of one-character strings, so that int()   *)
(*    is computed digit by digit.                                          *)
(*  - A Python dict is a sequence of <<key, value>> pairs with pairwise    *)
(*    distinct keys, in insertion order.                                   *)
(*  - A rate is the exact fraction [num, den] of the code's                *)
(*    (value - previous_value) / previous_value; measured values are       *)
(*    non-negative, so den > 0 whenever a rate exists.  Floating-point     *)
(*    rounding is not modelled.                                            *)
(*  - An uncaught exception ends the process: error holds its type,        *)
(*    failed_at the function that raised it, exit_code is 1.               *)
(***************************************************************************)
EXTENDS Integers, Sequences, FiniteSets, TLC

VARIABLES argv, pc, error, failed_at, exit_code, output, calls, country_name,
          years, sorted_unique_years, index_loss_sum, year_loss_sum,
          yearly_rate, highest

vars == <<argv, pc, error, failed_at, exit_code, output, calls, country_name,
          years, sorted_unique_years, index_loss_sum, year_loss_sum,
          yearly_rate, highest>>

(***************************************************************************)
(* Bounds                                                                  *)
(***************************************************************************)
\* Largest number of entries of a histogram handed to keys_integer alone.
MaxKeys == 3
\* Largest number of entries of a year series handed to rate_calc alone.
MaxSeries == 4
\* Largest number of entries of the histogram a region returns in a run.
MaxRegionKeys == 2

(***************************************************************************)
(* Python str, int() and dict                                              *)
(***************************************************************************)
Digits == {"0", "1", "2", "3", "4", "5", "6", "7", "8", "9"}

DigitVal(c) ==
    CASE c = "0" -> 0 [] c = "1" -> 1 [] c = "2" -> 2 [] c = "3" -> 3
      [] c = "4" -> 4 [] c = "5" -> 5 [] c = "6" -> 6 [] c = "7" -> 7
      [] c = "8" -> 8 [] c = "9" -> 9

RECURSIVE DigitsVal(_)
DigitsVal(s) ==
    IF s = <<>> THEN 0
    ELSE 10 * DigitsVal(SubSeq(s, 1, Len(s) - 1)) + DigitVal(s[Len(s)])

AllDigits(s) == Len(s) > 0 /\ \A i \in 1..Len(s) : s[i] \in Digits

\* int(s) on the characters used here: an optional sign, then decimal digits
\* (leading zeros allowed); anything else raises ValueError (ok = FALSE).
ParseInt(s) ==
    IF AllDigits(s) THEN [ok |-> TRUE, val |-> DigitsVal(s)]
    ELSE IF Len(s) > 1 /\ s[1] \in {"+", "-"} /\ AllDigits(Tail(s))
         THEN [ok |-> TRUE,
               val |-> IF s[1] = "-" THEN 0 - DigitsVal(Tail(s))
                       ELSE DigitsVal(Tail(s))]
         ELSE [ok |-> FALSE, val |-> 0]

DictKeys(d) == {d[i][1] : i \in 1..Len(d)}

HasKey(d, k) == \E i \in 1..Len(d) : d[i][1] = k

DictGet(d, k) == d[CHOOSE i \in 1..Len(d) : d[i][1] = k][2]

\* d[k] = v: an existing key keeps its position and takes the new value.
DictSet(d, k, v) ==
    IF HasKey(d, k)
    THEN [i \in 1..Len(d) |-> IF d[i][1] = k THEN <<k, v>> ELSE d[i]]
    ELSE Append(d, <<k, v>>)

IsDict(d) == \A i, j \in 1..Len(d) : i # j => d[i][1] # d[j][1]

\* All dicts with at most n entries, keys from K, values from V, in every
\* insertion order.
RECURSIVE Dicts(_, _, _)
Dicts(K, V, n) ==
    IF n = 0 THEN {<<>>}
    ELSE LET shorter == Dicts(K, V, n - 1)
         IN shorter \cup
            UNION {{Append(d, <<k, v>>) : k \in K \ DictKeys(d), v \in V} :
                       d \in {e \in shorter : Len(e) = n - 1}}

(***************************************************************************)
(* keys_integer, year_mapping, rate_calc, max                              *)
(***************************************************************************)
\* sorted(items) by the first component.  Python's sort is stable: an item
\* goes after every item already placed whose key is not greater.
RECURSIVE InsertByFirst(_, _)
InsertByFirst(sorted, item) ==
    IF sorted = <<>> THEN <<item>>
    ELSE IF item[1] < Head(sorted)[1]
         THEN <<item>> \o sorted
         ELSE <<Head(sorted)>> \o InsertByFirst(Tail(sorted), item)

RECURSIVE SortedByFirst(_)
SortedByFirst(items) ==
    IF items = <<>> THEN <<>>
    ELSE InsertByFirst(SortedByFirst(SubSeq(items, 1, Len(items) - 1)),
                       items[Len(items)])

\* {k2: v for ...}: the dict built by inserting the pairs in order.
RECURSIVE DictFromItems(_)
DictFromItems(items) ==
    IF items = <<>> THEN <<>>
    ELSE LET last == items[Len(items)]
         IN DictSet(DictFromItems(SubSeq(items, 1, Len(items) - 1)),
                    last[1], last[2])

\* keys_integer without the sort: the keys stay in the order received.
keys_integer_unsorted(ys) ==
    IF \E i \in 1..Len(ys) : ~ParseInt(ys[i][1]).ok
    THEN [err |-> "ValueError", val |-> <<>>]
    ELSE [err |-> "none",
          val |-> DictFromItems(
                     [i \in 1..Len(ys) |-> <<ParseInt(ys[i][1]).val, ys[i][2]>>])]

\* sorted(years.items(), key=lambda item: int(item[0])) followed by
\* {int(key): value ...}.  The sort key is int(key), so the items are written
\* here with int(key) in place of key before the stable sort; int() raises
\* ValueError on the first key it cannot parse.
keys_integer(ys) ==
    IF \E i \in 1..Len(ys) : ~ParseInt(ys[i][1]).ok
    THEN [err |-> "ValueError", val |-> <<>>]
    ELSE [err |-> "none",
          val |-> DictFromItems(SortedByFirst(
                     [i \in 1..Len(ys) |-> <<ParseInt(ys[i][1]).val, ys[i][2]>>]))]

\* The table without its gap: index i -> 1999 + i.
new_keys_mapping_contiguous == [i \in 1..22 |-> 1999 + i]

new_keys_mapping ==
    <<2000, 2001, 2003, 2004, 2005, 2006, 2007, 2008, 2009, 2010, 2011,
      2012, 2013, 2014, 2015, 2016, 2017, 2018, 2019, 2020, 2021, 2022>>

\* year_mapping with new_keys_mapping.get: an index the table lacks is skipped.
year_mapping_skipping(idx) ==
    LET known == SelectSeq(idx, LAMBDA item : item[1] \in DOMAIN new_keys_mapping)
    IN [err |-> "none",
        val |-> DictFromItems([i \in 1..Len(known) |->
                                  <<new_keys_mapping[known[i][1]], known[i][2]>>])]

year_mapping(idx) ==
    IF \E i \in 1..Len(idx) : idx[i][1] \notin DOMAIN new_keys_mapping
    THEN [err |-> "KeyError", val |-> <<>>]
    ELSE [err |-> "none",
          val |-> DictFromItems([i \in 1..Len(idx) |->
                                    <<new_keys_mapping[idx[i][1]], idx[i][2]>>])]

\* The loop of rate_calc over items already sorted: acc is
\* [err, rates, prev] with prev = <<>> for previous_value None.
RECURSIVE RateLoop(_, _)
RateLoop(items, acc) ==
    IF items = <<>> \/ acc.err # "none" THEN acc
    ELSE LET year  == Head(items)[1]
             value == Head(items)[2]
         IN IF acc.prev = <<>>
            THEN RateLoop(Tail(items), [acc EXCEPT !.prev = <<value>>])
            ELSE IF acc.prev[1] = 0
                 THEN [acc EXCEPT !.err = "ZeroDivisionError"]
                 ELSE RateLoop(Tail(items),
                        [err   |-> "none",
                         rates |-> DictSet(acc.rates, year,
                                      [num |-> value - acc.prev[1],
                                       den |-> acc.prev[1]]),
                         prev  |-> <<value>>])

\* rate_calc iterating loss_dict.items() as inserted, without sorted().
rate_calc_unsorted(loss_dict) ==
    LET r == RateLoop(loss_dict, [err |-> "none", rates |-> <<>>, prev |-> <<>>])
    IN [err |-> r.err, val |-> IF r.err = "none" THEN r.rates ELSE <<>>]

\* rate_calc guarding the division: a year whose baseline is 0 gets no rate.
RECURSIVE RateLoopSkipZero(_, _)
RateLoopSkipZero(items, acc) ==
    IF items = <<>> THEN acc
    ELSE LET year  == Head(items)[1]
             value == Head(items)[2]
         IN IF acc.prev = <<>> \/ acc.prev[1] = 0
            THEN RateLoopSkipZero(Tail(items), [acc EXCEPT !.prev = <<value>>])
            ELSE RateLoopSkipZero(Tail(items),
                   [err   |-> "none",
                    rates |-> DictSet(acc.rates, year,
                                 [num |-> value - acc.prev[1],
                                  den |-> acc.prev[1]]),
                    prev  |-> <<value>>])

rate_calc_skip_zero(loss_dict) ==
    [err |-> "none",
     val |-> RateLoopSkipZero(SortedByFirst(loss_dict),
                [err |-> "none", rates |-> <<>>, prev |-> <<>>]).rates]

rate_calc(loss_dict) ==
    LET r == RateLoop(SortedByFirst(loss_dict),
                      [err |-> "none", rates |-> <<>>, prev |-> <<>>])
    IN [err |-> r.err, val |-> IF r.err = "none" THEN r.rates ELSE <<>>]

\* a < b for fractions with positive denominators.
RateLess(a, b) == a.num * b.den < b.num * a.den

RateEq(a, b) == a.num * b.den = b.num * a.den

\* max(items, key=lambda x: x[1]): the running best is replaced only by a
\* strictly greater key, so the first maximal item is returned.
RECURSIVE MaxLoop(_, _)
MaxLoop(items, best) ==
    IF items = <<>> THEN best
    ELSE MaxLoop(Tail(items),
                 IF RateLess(best[2], Head(items)[2]) THEN Head(items) ELSE best)

\* max replacing the running best on ties too: the last maximal item wins.
RECURSIVE MaxLoopLast(_, _)
MaxLoopLast(items, best) ==
    IF items = <<>> THEN best
    ELSE MaxLoopLast(Tail(items),
                     IF RateLess(Head(items)[2], best[2]) THEN best ELSE Head(items))

max_by_rate_last(rates) ==
    IF rates = <<>> THEN [err |-> "ValueError", val |-> <<>>]
    ELSE [err |-> "none", val |-> <<MaxLoopLast(Tail(rates), Head(rates))>>]

\* max(..., default=None): an empty series yields no entry and no error.
max_by_rate_default(rates) ==
    IF rates = <<>> THEN [err |-> "none", val |-> <<>>]
    ELSE [err |-> "none", val |-> <<MaxLoop(Tail(rates), Head(rates))>>]

max_by_rate(rates) ==
    IF rates = <<>> THEN [err |-> "ValueError", val |-> <<>>]
    ELSE [err |-> "none", val |-> <<MaxLoop(Tail(rates), Head(rates))>>]

(***************************************************************************)
(* Inputs                                                                  *)
(***************************************************************************)
\* Histogram keys as the service may send them: "0" (no loss), indices in and
\* out of the table, a zero-padded spelling of 1, and a non-numeric key.
HistKeys ==
    {<<"0">>, <<"1">>, <<"0", "1">>, <<"2">>, <<"3">>, <<"2", "2">>,
     <<"2", "3">>, <<"9", "9">>, <<"x">>}

HistCounts == {5, 7}

RegionKeys == {<<"0">>, <<"1">>, <<"0", "1">>, <<"2">>, <<"3">>, <<"x">>}

SeriesYears == {2000, 2001, 2002, 2003, 2004}

LossVals == {0, 100, 120, 150}

Prog == <<"s", "p">>

Help == <<"-", "-", "h", "e", "l", "p">>

Argvs ==
    {<<Prog>>,
     <<Prog, Help>>,
     <<Prog, <<"1", "1", "3">>>>,
     <<Prog, <<"0", "4", "5">>>>,
     <<Prog, <<"a", "b", "c">>>>,
     <<Prog, <<"-", "h">>>>,
     <<Prog, <<"1", "1", "3">>, <<"4", "5">>>>}

(***************************************************************************)
(* The program                                                             *)
(***************************************************************************)
Blank ==
    /\ error = "none"
    /\ failed_at = "none"
    /\ exit_code = 0 - 1
    /\ output = <<>>
    /\ calls = <<>>
    /\ country_name = 0
    /\ years = <<>>
    /\ sorted_unique_years = <<>>
    /\ index_loss_sum = <<>>
    /\ year_loss_sum = <<>>
    /\ yearly_rate = <<>>
    /\ highest = <<>>

\* An exception nothing catches: traceback, exit status 1.
Raise(stage, exc) ==
    /\ pc' = "failed"
    /\ error' = exc
    /\ failed_at' = stage
    /\ exit_code' = 1

NoRaise == UNCHANGED <<error, failed_at, exit_code>>

Init ==
    /\ argv \in Argvs
    /\ pc = "import"
    /\ Blank

\* ee.Initialize(...) at import.
Initialize ==
    /\ pc = "import"
    /\ \/ /\ pc' = "__main__"
          /\ NoRaise
       \/ Raise("Initialize", "EEException")
    /\ UNCHANGED <<argv, output, calls, country_name, years,
                   sorted_unique_years, index_loss_sum, year_loss_sum,
                   yearly_rate, highest>>

\* len(sys.argv) != 2 or sys.argv[1] == "--help" (argv is 1-based here).
WantsUsage == IF Len(argv) # 2 THEN TRUE ELSE argv[2] = Help

\* if __name__ == "__main__": ...
EntryPoint ==
    /\ pc = "__main__"
    /\ \/ /\ WantsUsage
          /\ output' = output \o <<"usage", "example", "gaul_code_note">>
          /\ pc' = "exited"
          /\ exit_code' = 1
          /\ UNCHANGED <<error, failed_at, country_name, calls>>
       \/ /\ ~WantsUsage
          /\ ~ParseInt(argv[2]).ok
          /\ Raise("__main__", "ValueError")
          /\ UNCHANGED <<output, country_name, calls>>
       \/ /\ ~WantsUsage
          /\ ParseInt(argv[2]).ok
          /\ country_name' = ParseInt(argv[2]).val
          /\ calls' = Append(calls, "main")
          /\ pc' = "get_country_boundary"
          /\ NoRaise
          /\ UNCHANGED output
    /\ UNCHANGED <<argv, years, sorted_unique_years, index_loss_sum,
                   year_loss_sum, yearly_rate, highest>>

\* A function of main that prints `line`, then makes one blocking getInfo()
\* round trip which returns or raises.
Request(at, line, next) ==
    /\ pc = at
    /\ calls' = Append(calls, at)
    /\ output' = Append(output, line)
    /\ \/ /\ pc' = next
          /\ NoRaise
       \/ Raise(at, "EEException")
    /\ UNCHANGED <<argv, country_name, years, sorted_unique_years,
                   index_loss_sum, year_loss_sum, yearly_rate, highest>>

get_country_boundary ==
    Request("get_country_boundary", "obtain_gaul_level0", "get_admin_units")

get_admin_units ==
    Request("get_admin_units", "obtain_gaul_level1", "get_hansen")

\* A function of main that only builds a server-side object: no round trip.
Build(at, line, next) ==
    /\ pc = at
    /\ calls' = Append(calls, at)
    /\ output' = Append(output, line)
    /\ pc' = next
    /\ NoRaise
    /\ UNCHANGED <<argv, country_name, years, sorted_unique_years,
                   index_loss_sum, year_loss_sum, yearly_rate, highest>>

get_hansen == Build("get_hansen", "obtain_hansen", "clip_raster_with_boundary")

clip_raster_with_boundary ==
    Build("clip_raster_with_boundary", "clip", "stable_forest")

\* AreaSum printing its result line whether or not getInfo() returned.
AreaSum_print_always(at, progress, result, next) ==
    /\ pc = at
    /\ calls' = Append(calls, at)
    /\ output' = output \o <<progress, result>>
    /\ \/ /\ pc' = next
          /\ NoRaise
       \/ Raise(at, "EEException")
    /\ UNCHANGED <<argv, country_name, years, sorted_unique_years,
                   index_loss_sum, year_loss_sum, yearly_rate, highest>>

\* A Sum reduction whose result is printed once getInfo() has returned.
AreaSum(at, progress, result, next) ==
    /\ pc = at
    /\ calls' = Append(calls, at)
    /\ \/ /\ output' = output \o <<progress, result>>
          /\ pc' = next
          /\ NoRaise
       \/ /\ output' = Append(output, progress)
          /\ Raise(at, "EEException")
    /\ UNCHANGED <<argv, country_name, years, sorted_unique_years,
                   index_loss_sum, year_loss_sum, yearly_rate, highest>>

stable_forest ==
    AreaSum("stable_forest", "calc_stable", "stable_forest_area", "deforestation")

deforestation ==
    AreaSum("deforestation", "calc_deforested", "deforested_area",
            "deforestation_rate")

\* deforestation_rate up to the loop: the frequencyHistogram round trip, then
\* keys_integer on what it returned.
LossYearHistogram ==
    /\ pc = "deforestation_rate"
    /\ \/ /\ \E h \in Dicts(RegionKeys, HistCounts, MaxRegionKeys) :
                LET k == keys_integer(h)
                IN /\ years' = h
                   /\ output' = Append(output, "calc_rate")
                   /\ calls' = calls \o <<"frequencyHistogram", "keys_integer">>
                   /\ IF k.err # "none"
                      THEN /\ Raise("keys_integer", k.err)
                           /\ UNCHANGED sorted_unique_years
                      ELSE /\ sorted_unique_years' = k.val
                           /\ pc' = IF k.val = <<>> THEN "year_mapping"
                                    ELSE "loss_for_year"
                           /\ NoRaise
       \/ /\ Raise("frequencyHistogram", "EEException")
          /\ calls' = Append(calls, "frequencyHistogram")
          /\ UNCHANGED <<years, output, sorted_unique_years>>
    /\ UNCHANGED <<argv, country_name, index_loss_sum, year_loss_sum,
                   yearly_rate, highest>>

\* The loop leaving after its first iteration.
LossForYear_first_only ==
    /\ pc = "loss_for_year"
    /\ LET year == sorted_unique_years[Len(index_loss_sum) + 1][1]
       IN /\ calls' = Append(calls, "loss_for_year")
          /\ \/ \E v \in LossVals :
                  /\ index_loss_sum' = DictSet(index_loss_sum, year, v)
                  /\ pc' = "year_mapping"
                  /\ NoRaise
             \/ /\ Raise("loss_for_year", "EEException")
                /\ UNCHANGED index_loss_sum
    /\ UNCHANGED <<argv, output, country_name, years, sorted_unique_years,
                   year_loss_sum, yearly_rate, highest>>

\* One iteration of `for year in sorted_unique_years`: the Sum round trip for
\* the next index, stored under that index.
LossForYear ==
    /\ pc = "loss_for_year"
    /\ LET year == sorted_unique_years[Len(index_loss_sum) + 1][1]
       IN /\ calls' = Append(calls, "loss_for_year")
          /\ \/ \E v \in LossVals :
                  /\ index_loss_sum' = DictSet(index_loss_sum, year, v)
                  /\ pc' = IF Len(index_loss_sum) + 1 = Len(sorted_unique_years)
                           THEN "year_mapping" ELSE "loss_for_year"
                  /\ NoRaise
             \/ /\ Raise("loss_for_year", "EEException")
                /\ UNCHANGED index_loss_sum
    /\ UNCHANGED <<argv, output, country_name, years, sorted_unique_years,
                   year_loss_sum, yearly_rate, highest>>

YearMapping ==
    /\ pc = "year_mapping"
    /\ calls' = Append(calls, "year_mapping")
    /\ LET m == year_mapping(index_loss_sum)
       IN IF m.err # "none"
          THEN /\ Raise("year_mapping", m.err)
               /\ UNCHANGED year_loss_sum
          ELSE /\ year_loss_sum' = m.val
               /\ pc' = "rate_calc"
               /\ NoRaise
    /\ UNCHANGED <<argv, output, country_name, years, sorted_unique_years,
                   index_loss_sum, yearly_rate, highest>>

RateCalc ==
    /\ pc = "rate_calc"
    /\ calls' = Append(calls, "rate_calc")
    /\ LET r == rate_calc(year_loss_sum)
       IN IF r.err # "none"
          THEN /\ Raise("rate_calc", r.err)
               /\ UNCHANGED <<yearly_rate, output>>
          ELSE /\ yearly_rate' = r.val
               /\ output' = Append(output, "yearly_rate")
               /\ pc' = "max"
               /\ NoRaise
    /\ UNCHANGED <<argv, country_name, years, sorted_unique_years,
                   index_loss_sum, year_loss_sum, highest>>

SelectPeak ==
    /\ pc = "max"
    /\ calls' = Append(calls, "max")
    /\ LET m == max_by_rate(yearly_rate)
       IN IF m.err # "none"
          THEN /\ Raise("max", m.err)
               /\ UNCHANGED <<highest, output>>
          ELSE /\ highest' = m.val
               /\ output' = Append(output, "highest")
               /\ pc' = "done"
               /\ exit_code' = 0
               /\ UNCHANGED <<error, failed_at>>
    /\ UNCHANGED <<argv, country_name, years, sorted_unique_years,
                   index_loss_sum, year_loss_sum, yearly_rate>>

Next ==
    \/ Initialize
    \/ EntryPoint
    \/ get_country_boundary
    \/ get_admin_units
    \/ get_hansen
    \/ clip_raster_with_boundary
    \/ stable_forest
    \/ deforestation
    \/ LossYearHistogram
    \/ LossForYear
    \/ YearMapping
    \/ RateCalc
    \/ SelectPeak

Spec == Init /\ [][Next]_vars

(***************************************************************************)
(* keys_integer and year_mapping called on their own, one after the other, *)
(* on every histogram of at most MaxKeys entries: the caller fills the     *)
(* histogram entry by entry and may make the calls at any point.           *)
(***************************************************************************)
InitDecode ==
    /\ argv = <<Prog>>
    /\ pc = "keys_integer"
    /\ error = "none"
    /\ failed_at = "none"
    /\ exit_code = 0 - 1
    /\ output = <<>>
    /\ calls = <<>>
    /\ country_name = 0
    /\ years = <<>>
    /\ sorted_unique_years = <<>>
    /\ index_loss_sum = <<>>
    /\ year_loss_sum = <<>>
    /\ yearly_rate = <<>>
    /\ highest = <<>>

PutCount ==
    /\ pc = "keys_integer"
    /\ Len(years) < MaxKeys
    /\ \E k \in HistKeys \ DictKeys(years), c \in HistCounts :
          years' = Append(years, <<k, c>>)
    /\ UNCHANGED <<argv, pc, error, failed_at, exit_code, output, calls,
                   country_name, sorted_unique_years, index_loss_sum,
                   year_loss_sum, yearly_rate, highest>>

CallKeysInteger ==
    /\ pc = "keys_integer"
    /\ calls' = Append(calls, "keys_integer")
    /\ LET k == keys_integer(years)
       IN IF k.err # "none"
          THEN /\ Raise("keys_integer", k.err)
               /\ UNCHANGED sorted_unique_years
          ELSE /\ sorted_unique_years' = k.val
               /\ pc' = "year_mapping_call"
               /\ NoRaise
    /\ UNCHANGED <<argv, output, country_name, years, index_loss_sum,
                   year_loss_sum, yearly_rate, highest>>

CallYearMapping ==
    /\ pc = "year_mapping_call"
    /\ calls' = Append(calls, "year_mapping")
    /\ LET m == year_mapping(sorted_unique_years)
       IN IF m.err # "none"
          THEN /\ Raise("year_mapping", m.err)
               /\ UNCHANGED year_loss_sum
          ELSE /\ year_loss_sum' = m.val
               /\ pc' = "decoded"
               /\ NoRaise
    /\ UNCHANGED <<argv, output, country_name, years, sorted_unique_years,
                   index_loss_sum, yearly_rate, highest>>

NextDecode == PutCount \/ CallKeysInteger \/ CallYearMapping

SpecDecode == InitDecode /\ [][NextDecode]_vars

(***************************************************************************)
(* rate_calc and the max of deforestation_rate on every year series of at  *)
(* most MaxSeries entries, in every insertion order: the caller fills the  *)
(* series entry by entry and may make the calls at any point.              *)
(***************************************************************************)
InitRates ==
    /\ argv = <<Prog>>
    /\ pc = "rate_calc"
    /\ error = "none"
    /\ failed_at = "none"
    /\ exit_code = 0 - 1
    /\ output = <<>>
    /\ calls = <<>>
    /\ country_name = 0
    /\ years = <<>>
    /\ sorted_unique_years = <<>>
    /\ index_loss_sum = <<>>
    /\ year_loss_sum = <<>>
    /\ yearly_rate = <<>>
    /\ highest = <<>>

PutLoss ==
    /\ pc = "rate_calc"
    /\ Len(year_loss_sum) < MaxSeries
    /\ \E y \in SeriesYears \ DictKeys(year_loss_sum), v \in LossVals :
          year_loss_sum' = Append(year_loss_sum, <<y, v>>)
    /\ UNCHANGED <<argv, pc, error, failed_at, exit_code, output, calls,
                   country_name, years, sorted_unique_years, index_loss_sum,
                   yearly_rate, highest>>

NextRates == PutLoss \/ RateCalc \/ SelectPeak

SpecRates == InitRates /\ [][NextRates]_vars

(***************************************************************************)
(* Properties of decoding (SpecDecode)                                     *)
(***************************************************************************)
TableDomain == 1..22

KeyInt(h, i) == ParseInt(h[i][1]).val

AllParse(h) == \A i \in 1..Len(h) : ParseInt(h[i][1]).ok

AllMapped(h) == AllParse(h) /\ \A i \in 1..Len(h) : KeyInt(h, i) \in TableDomain

SomeUnmapped(h) ==
    \E i \in 1..Len(h) : ParseInt(h[i][1]).ok /\ KeyInt(h, i) \notin TableDomain

DistinctParsed(h) == \A i, j \in 1..Len(h) : i # j => KeyInt(h, i) # KeyInt(h, j)

StrictlyAscending(d) == \A i \in 1..(Len(d) - 1) : d[i][1] < d[i + 1][1]

DecodeReturns ==
    /\ failed_at \notin {"keys_integer", "year_mapping"}
    /\ pc = "decoded" =>
          /\ StrictlyAscending(year_loss_sum)
          /\ Len(year_loss_sum) = Len(years)

\* C1 as stated: every histogram whose string keys are pairwise distinct and
\* each parse to an index of the table decodes, without error, to a series
\* with strictly ascending years and as many entries as the histogram has
\* keys.
C1_DistinctStrings == (IsDict(years) /\ AllMapped(years)) => DecodeReturns

\* C1, amended: every histogram whose keys parse to pairwise distinct indices
\* of the table decodes, without error, to a series with strictly ascending
\* years and as many entries as the histogram has keys; the empty histogram
\* decodes to the empty series.
C1_DistinctIndices ==
    (IsDict(years) /\ AllMapped(years) /\ DistinctParsed(years)) => DecodeReturns

C1_Witness ==
    /\ pc = "decoded"
    /\ Len(years) = 3
    /\ AllMapped(years) /\ DistinctParsed(years)
    /\ KeyInt(years, 1) > KeyInt(years, 2)
    /\ Len(year_loss_sum) = 3

\* C2: a histogram with a key whose integer value is outside the table never
\* decodes to a series, partial or not; when every key parses, the failure
\* is the KeyError of year_mapping.
C2_UnmappedFails ==
    SomeUnmapped(years) =>
        /\ pc # "decoded"
        /\ year_loss_sum = <<>>
        /\ pc = "year_mapping_call" => AllParse(years)
        /\ (pc = "failed" /\ AllParse(years)) =>
               (error = "KeyError" /\ failed_at = "year_mapping")

C2_Witness ==
    /\ pc = "failed"
    /\ error = "KeyError"
    /\ failed_at = "year_mapping"
    /\ Len(years) = 3
    /\ \E i \in 1..3 : KeyInt(years, i) = 0
    /\ \E i \in 1..3 : KeyInt(years, i) \in TableDomain
    /\ year_loss_sum = <<>>

\* C7: the table is defined exactly on 1..22, sends 1 to 2000, 2 to 2001 and
\* 3 to 2003, is strictly increasing and produces every year of 2000..2022
\* but 2002; every decoded series holds, position by position, the table's
\* year for the sorted index.
C7_Table ==
    /\ DOMAIN new_keys_mapping = 1..22
    /\ new_keys_mapping[1] = 2000
    /\ new_keys_mapping[2] = 2001
    /\ new_keys_mapping[3] = 2003
    /\ \A i, j \in 1..22 : i < j => new_keys_mapping[i] < new_keys_mapping[j]
    /\ {new_keys_mapping[i] : i \in 1..22} = (2000..2022) \ {2002}
    /\ pc = "decoded" =>
          /\ Len(year_loss_sum) = Len(sorted_unique_years)
          /\ \A i \in 1..Len(year_loss_sum) :
                /\ sorted_unique_years[i][1] \in 1..22
                /\ year_loss_sum[i][1] = new_keys_mapping[sorted_unique_years[i][1]]
                /\ year_loss_sum[i][1] # 2002

C7_Witness ==
    /\ pc = "decoded"
    /\ years = <<<<<<"3">>, 5>>>>
    /\ year_loss_sum = <<<<2003, 5>>>>

(***************************************************************************)
(* Properties of rate_calc and max (SpecRates)                             *)
(***************************************************************************)
Range(sq) == {sq[i] : i \in 1..Len(sq)}

MinYear(d) == CHOOSE y \in DictKeys(d) : \A z \in DictKeys(d) : y <= z

\* The latest year of d before Y.
PrevYear(d, Y) ==
    CHOOSE P \in DictKeys(d) :
        P < Y /\ \A Q \in DictKeys(d) : Q < Y => Q <= P

\* Some entry other than the last, in ascending year order, has value 0.
ZeroBaseline(d) ==
    \E i, j \in 1..Len(d) : d[i][2] = 0 /\ d[i][1] < d[j][1]

RatesReturned == "rate_calc" \in Range(calls) /\ failed_at # "rate_calc"

Half == [num |-> 1, den |-> 2]

MinusFifth == [num |-> 0 - 1, den |-> 5]

\* C3: rate_calc returns for every series without a zero baseline; what it
\* returns has exactly the series' years but the smallest as keys, in
\* ascending order, and for each year Y the rate (value[Y] - value[P]) /
\* value[P], P the latest year of the series before Y.  An empty or
\* one-element series yields the empty rate series;
\* {2000:100, 2001:150, 2002:120} yields 1/2 for 2001 and -1/5 for 2002.
C3_Rates ==
    /\ ~ZeroBaseline(year_loss_sum) => failed_at # "rate_calc"
    /\ RatesReturned =>
          /\ IsDict(yearly_rate) /\ StrictlyAscending(yearly_rate)
          /\ DictKeys(yearly_rate) =
                IF year_loss_sum = <<>> THEN {}
                ELSE DictKeys(year_loss_sum) \ {MinYear(year_loss_sum)}
          /\ Len(year_loss_sum) <= 1 => yearly_rate = <<>>
          /\ \A i \in 1..Len(yearly_rate) :
                LET Y == yearly_rate[i][1]
                    P == PrevYear(year_loss_sum, Y)
                    vY == DictGet(year_loss_sum, Y)
                    vP == DictGet(year_loss_sum, P)
                IN /\ vP > 0
                   /\ yearly_rate[i][2].den > 0
                   /\ RateEq(yearly_rate[i][2], [num |-> vY - vP, den |-> vP])
          /\ Range(year_loss_sum) = {<<2000, 100>>, <<2001, 150>>, <<2002, 120>>} =>
                /\ Len(yearly_rate) = 2
                /\ yearly_rate[1][1] = 2001 /\ RateEq(yearly_rate[1][2], Half)
                /\ yearly_rate[2][1] = 2002 /\ RateEq(yearly_rate[2][2], MinusFifth)

C3_Witness ==
    /\ pc = "max"
    /\ year_loss_sum = <<<<2002, 120>>, <<2000, 100>>, <<2001, 150>>>>
    /\ Len(yearly_rate) = 2
    /\ RateEq(yearly_rate[1][2], Half)
    /\ RateEq(yearly_rate[2][2], MinusFifth)

\* C4: on a series of more than one entry with a zero baseline, rate_calc
\* raises ZeroDivisionError and returns nothing: no rate series exists
\* afterwards, none is printed and no peak is selected.
C4_ZeroBaseline ==
    (ZeroBaseline(year_loss_sum) /\ "rate_calc" \in Range(calls)) =>
        /\ pc = "failed"
        /\ error = "ZeroDivisionError"
        /\ failed_at = "rate_calc"
        /\ yearly_rate = <<>>
        /\ highest = <<>>
        /\ "yearly_rate" \notin Range(output)

C4_Witness ==
    /\ pc = "failed"
    /\ error = "ZeroDivisionError"
    /\ Range(year_loss_sum) = {<<2000, 100>>, <<2001, 150>>, <<2002, 0>>, <<2003, 120>>}

\* C5: on a non-empty rate series max returns an entry of the series whose
\* rate no rate of the series exceeds, and among the years with that rate
\* the earliest.
C5_Peak ==
    /\ (yearly_rate # <<>> /\ "max" \in Range(calls)) => pc = "done"
    /\ pc = "done" =>
          /\ Len(highest) = 1
          /\ highest[1] \in Range(yearly_rate)
          /\ \A i \in 1..Len(yearly_rate) :
                /\ ~RateLess(highest[1][2], yearly_rate[i][2])
                /\ RateEq(yearly_rate[i][2], highest[1][2]) =>
                      highest[1][1] <= yearly_rate[i][1]

\* The rates 1/2, -1/3, 1/2: the first and the last tie for the maximum.
C5_Witness ==
    /\ pc = "done"
    /\ Len(yearly_rate) = 3
    /\ RateEq(yearly_rate[1][2], Half)
    /\ RateEq(yearly_rate[3][2], Half)
    /\ RateLess(yearly_rate[2][2], Half)
    /\ highest = <<yearly_rate[1]>>

(***************************************************************************)
(* Properties of a run of the program (Spec)                               *)
(***************************************************************************)
Finished == pc \in {"done", "failed"}

HistogramReturned == "keys_integer" \in Range(calls)

EmptySeriesError == pc = "failed" /\ error = "ValueError" /\ failed_at = "max"

\* C6 as stated: with every request answered, a run whose histogram has zero
\* or exactly one (integer) key ends in the empty-series error of max.
C6_AnySingleKey ==
    (Finished /\ HistogramReturned /\ error # "EEException"
       /\ Len(years) <= 1 /\ AllParse(years)) => EmptySeriesError

\* C6, amended: max on an empty rate series raises and reports no peak; with
\* every request answered, that is how a run ends whose histogram has no key
\* or exactly one key, that key being an index of the table.
C6_EmptySeries ==
    /\ ("max" \in Range(calls) /\ yearly_rate = <<>>) =>
          /\ EmptySeriesError
          /\ highest = <<>>
          /\ "highest" \notin Range(output)
    /\ (Finished /\ HistogramReturned /\ error # "EEException"
          /\ Len(years) <= 1 /\ AllMapped(years)) => EmptySeriesError

C6_Witness ==
    /\ EmptySeriesError
    /\ Len(years) = 1
    /\ Len(year_loss_sum) = 1
    /\ highest = <<>>

\* C8 as stated: once a stage has failed, no result of the request has been
\* output.
C8_NoResultOutput ==
    pc = "failed" =>
        Range(output) \cap
            {"stable_forest_area", "deforested_area", "yearly_rate", "highest"} = {}

\* C8, amended: a failure ends the run with exit status 1 at the failing
\* stage, the last one to have started; no peak is output, and a result is
\* in the output exactly when its stage returned before the failing one
\* started: the stable-forest area, the deforested area, the rate series.
C8_Terminal ==
    pc = "failed" =>
        /\ exit_code = 1
        /\ error # "none"
        /\ IF failed_at \in {"Initialize", "__main__"}
           THEN calls = <<>>
           ELSE calls # <<>> /\ calls[Len(calls)] = failed_at
        /\ "stable_forest_area" \in Range(output) <=> "deforestation" \in Range(calls)
        /\ "deforested_area" \in Range(output) <=> "frequencyHistogram" \in Range(calls)
        /\ "yearly_rate" \in Range(output) <=> "max" \in Range(calls)
        /\ "highest" \notin Range(output)
        /\ highest = <<>>

C8_Witness ==
    /\ pc = "failed"
    /\ error = "KeyError"
    /\ failed_at = "year_mapping"
    /\ Len(index_loss_sum) = 2
    /\ "deforested_area" \in Range(output)
    /\ "yearly_rate" \notin Range(output)

BadArgument ==
    IF Len(argv) < 2 THEN TRUE
    ELSE IF argv[2] = Help THEN TRUE
    ELSE ~ParseInt(argv[2]).ok

Count(sq, x) == Cardinality({i \in 1..Len(sq) : sq[i] = x})

\* C9: once the entry point has run on at most one argument, a missing,
\* --help or non-integer argument has printed the usage text and exited
\* non-zero without calling main; any other argument has called main once
\* with its integer value.
C9_Usage ==
    (pc \notin {"import", "__main__"} /\ failed_at # "Initialize" /\ Len(argv) <= 2) =>
        IF BadArgument
        THEN /\ "usage" \in Range(output)
             /\ exit_code = 1
             /\ "main" \notin Range(calls)
        ELSE /\ Count(calls, "main") = 1
             /\ country_name = ParseInt(argv[2]).val

IsPrefix(a, b) == Len(a) <= Len(b) /\ \A i \in 1..Len(a) : a[i] = b[i]

ExpectedCalls(n) ==
    <<"main", "get_country_boundary", "get_admin_units", "get_hansen",
      "clip_raster_with_boundary", "stable_forest", "deforestation",
      "frequencyHistogram", "keys_integer">>
    \o [i \in 1..n |-> "loss_for_year"]
    \o <<"year_mapping", "rate_calc", "max">>

\* C10 as stated: no per-year Sum call is issued before decoding
\* (keys_integer, then year_mapping) has completed.
C10_SumsAfterDecode ==
    "loss_for_year" \in Range(calls) => "year_mapping" \in Range(calls)

\* C10, amended: the stages run in the order boundary, administrative units,
\* raster, clip, stable-forest Sum, deforested Sum, histogram, keys_integer,
\* one Sum per distinct parsed index in ascending index order, year_mapping,
\* rate_calc, max; year_mapping starts only after the Sum of every index has
\* returned.
C10_Order ==
    /\ IsPrefix(calls, ExpectedCalls(Len(sorted_unique_years)))
    /\ StrictlyAscending(sorted_unique_years)
    /\ (HistogramReturned /\ failed_at # "keys_integer") =>
          DictKeys(sorted_unique_years) = {KeyInt(years, i) : i \in 1..Len(years)}
    /\ Len(index_loss_sum) <= Len(sorted_unique_years)
    /\ \A i \in 1..Len(index_loss_sum) :
          index_loss_sum[i][1] = sorted_unique_years[i][1]
    /\ Count(calls, "loss_for_year") =
          Len(index_loss_sum) + (IF failed_at = "loss_for_year" THEN 1 ELSE 0)
    /\ "year_mapping" \in Range(calls) =>
          Len(index_loss_sum) = Len(sorted_unique_years)

C10_Witness ==
    /\ pc = "done"
    /\ Len(years) = 2
    /\ KeyInt(years, 1) > KeyInt(years, 2)
    /\ Len(index_loss_sum) = 2
    /\ Count(calls, "loss_for_year") = 2

====
